---- MODULE Spec2Model ----
(***************************************************************************)
(* Model of pkg/option/option.go of ghw: the environment lookups           *)
(* EnvOrDefault*, the constructors WithChroot / WithSnapshot and Merge.    *)
(*                                                                         *)
(* The caller is the program  list := []*Option{...}; r := Merge(list...); *)
(* r2 := Merge(r) or Merge(r, r),  run by one goroutine (Spec) or by two   *)
(* goroutines over the same list (SpecConc).                               *)
(*                                                                         *)
(* Option and SnapshotOptions hold Go pointers, so the model keeps a heap: *)
(*   strs   the string cells a *string can point to,                       *)
(*   snaps  the SnapshotOptions objects a *SnapshotOptions can point to,   *)
(*   opts   the Option objects a *Option can point to.                     *)
(* An address is an index into the sequence; Nil is the nil pointer.       *)
(* The process environment is a function from the variables that are set   *)
(* to their values: a variable is present iff it is in DOMAIN env.         *)
(***************************************************************************)
EXTENDS Integers, Sequences, FiniteSets, TLC

VARIABLES env, strs, snaps, opts, list, args, res, pc, last

vars == <<env, strs, snaps, opts, list, args, res, pc, last>>

(* ------------------------------ bounds --------------------------------- *)

(* The longest argument list the caller builds.                            *)
MaxArgs == 2

(* --------------------------- program constants ------------------------- *)

defaultChroot == "/"

envKeyChroot == "GHW_CHROOT"

envKeySnapshotPath == "GHW_SNAPSHOT_PATH"

envKeySnapshotRoot == "GHW_SNAPSHOT_ROOT"

envKeySnapshotExclusive == "GHW_SNAPSHOT_EXCLUSIVE"

envKeySnapshotPreserve == "GHW_SNAPSHOT_PRESERVE"

EnvKeys ==
  {envKeyChroot, envKeySnapshotPath, envKeySnapshotRoot,
   envKeySnapshotExclusive, envKeySnapshotPreserve}

Nil == 0

Procs == {1, 2}

(* The values the callers and the environment use.  The directories given  *)
(* by callers and the values given by the environment are kept apart, so   *)
(* that a value in a result tells where it came from.                      *)
EnvVals(k) ==
  CASE k = envKeyChroot -> {"", "/", "/host"}
    [] k = envKeySnapshotPath -> {"", "/envsnap"}
    [] k = envKeySnapshotRoot -> {"", "/envroot"}
    [] OTHER -> {"", "0", "false"}

(* The variables Merge reads, and the value the merging program gives each.*)
MergeKeys ==
  {envKeyChroot, envKeySnapshotPath, envKeySnapshotRoot, envKeySnapshotExclusive}

MergeEnvVals(k) ==
  CASE k = envKeyChroot -> {"", "/host"}
    [] k = envKeySnapshotPath -> {"/envsnap"}
    [] k = envKeySnapshotRoot -> {"/envroot"}
    [] OTHER -> {""}

(* SnapshotOptions{}, the zero value.                                      *)
ZeroSnapshotOptions == [Path |-> "", HasRoot |-> FALSE, Root |-> "", Exclusive |-> FALSE]

Dirs == {"/a", "/b"}

(* The SnapshotOptions values the callers write: Root nil is HasRoot FALSE.*)
SnapLits ==
  {[Path |-> "/snap", HasRoot |-> FALSE, Root |-> "", Exclusive |-> FALSE],
   [Path |-> "", HasRoot |-> TRUE, Root |-> "/r", Exclusive |-> TRUE]}

WriteVal == "/w"

(* ------------------------- environment lookups ------------------------- *)

(* os.LookupEnv: <<value, exists>>                                         *)
LookupEnv(e, key) ==
  IF key \in DOMAIN e THEN <<e[key], TRUE>> ELSE <<"", FALSE>>

EnvOrDefaultChroot_emptyIsUnset(e) ==
  LET r == LookupEnv(e, envKeyChroot) IN IF r[2] /\ r[1] # "" THEN r[1] ELSE defaultChroot

EnvOrDefaultChroot(e) ==
  LET r == LookupEnv(e, envKeyChroot) IN IF r[2] THEN r[1] ELSE defaultChroot

EnvOrDefaultSnapshotPath_rootKey(e) ==
  LET r == LookupEnv(e, envKeySnapshotRoot) IN IF r[2] THEN r[1] ELSE ""

EnvOrDefaultSnapshotPath(e) ==
  LET r == LookupEnv(e, envKeySnapshotPath) IN IF r[2] THEN r[1] ELSE ""

EnvOrDefaultSnapshotRoot(e) ==
  LET r == LookupEnv(e, envKeySnapshotRoot) IN IF r[2] THEN r[1] ELSE ""

EnvOrDefaultSnapshotExclusive_parsed(e) ==
  LET r == LookupEnv(e, envKeySnapshotExclusive)
  IN IF r[2] THEN r[1] \notin {"", "0", "false"} ELSE FALSE

EnvOrDefaultSnapshotExclusive(e) ==
  LET r == LookupEnv(e, envKeySnapshotExclusive) IN IF r[2] THEN TRUE ELSE FALSE

EnvOrDefaultSnapshotPreserve(e) ==
  LET r == LookupEnv(e, envKeySnapshotPreserve) IN IF r[2] THEN TRUE ELSE FALSE

(* ------------------------------- state --------------------------------- *)

Crashed == \E p \in Procs : pc[p] = "panic"

Event(op, p, s, b) == [op |-> op, p |-> p, str |-> s, bool |-> b]

Init ==
  /\ env = << >>
  /\ strs = << >>
  /\ snaps = << >>
  /\ opts = << >>
  /\ list = << >>
  /\ args = [p \in Procs |-> << >>]
  /\ res = [p \in Procs |-> Nil]
  /\ pc = [p \in Procs |-> "ready"]
  /\ last = Event("init", 0, "", FALSE)

(* os.Setenv / os.Unsetenv by the program around the calls.                *)
Setenv(key, val) ==
  /\ ~Crashed
  /\ env' = [k \in DOMAIN env \cup {key} |-> IF k = key THEN val ELSE env[k]]
  /\ env' # env
  /\ last' = Event("Setenv", 0, "", FALSE)
  /\ UNCHANGED <<strs, snaps, opts, list, args, res, pc>>

Unsetenv(key) ==
  /\ ~Crashed
  /\ key \in DOMAIN env
  /\ env' = [k \in DOMAIN env \ {key} |-> env[k]]
  /\ last' = Event("Unsetenv", 0, "", FALSE)
  /\ UNCHANGED <<strs, snaps, opts, list, args, res, pc>>

(* A call of one of the five lookups; its return value is kept in last.    *)
CallEnvOrDefaultChroot_setsDefault ==
  /\ ~Crashed
  /\ last' = Event("EnvOrDefaultChroot", 0, EnvOrDefaultChroot(env), FALSE)
  /\ env' = [k \in DOMAIN env \cup {envKeyChroot} |->
               IF k \in DOMAIN env THEN env[k] ELSE defaultChroot]
  /\ UNCHANGED <<strs, snaps, opts, list, args, res, pc>>

CallEnvOrDefaultChroot ==
  /\ ~Crashed
  /\ last' = Event("EnvOrDefaultChroot", 0, EnvOrDefaultChroot(env), FALSE)
  /\ UNCHANGED <<env, strs, snaps, opts, list, args, res, pc>>

CallEnvOrDefaultSnapshotPath ==
  /\ ~Crashed
  /\ last' = Event("EnvOrDefaultSnapshotPath", 0, EnvOrDefaultSnapshotPath(env), FALSE)
  /\ UNCHANGED <<env, strs, snaps, opts, list, args, res, pc>>

CallEnvOrDefaultSnapshotRoot ==
  /\ ~Crashed
  /\ last' = Event("EnvOrDefaultSnapshotRoot", 0, EnvOrDefaultSnapshotRoot(env), FALSE)
  /\ UNCHANGED <<env, strs, snaps, opts, list, args, res, pc>>

CallEnvOrDefaultSnapshotExclusive ==
  /\ ~Crashed
  /\ last' = Event("EnvOrDefaultSnapshotExclusive", 0, "", EnvOrDefaultSnapshotExclusive(env))
  /\ UNCHANGED <<env, strs, snaps, opts, list, args, res, pc>>

CallEnvOrDefaultSnapshotPreserve ==
  /\ ~Crashed
  /\ last' = Event("EnvOrDefaultSnapshotPreserve", 0, "", EnvOrDefaultSnapshotPreserve(env))
  /\ UNCHANGED <<env, strs, snaps, opts, list, args, res, pc>>

(* ----------------------------- constructors ---------------------------- *)

(* The caller builds its argument list before any goroutine merges.        *)
Building == Len(list) < MaxArgs /\ \A p \in Procs : pc[p] = "ready"

(* &Option{Chroot: .., Snapshot: ..}: a new Option, with a new string cell *)
(* when the chroot is given and a new SnapshotOptions (and the string its  *)
(* Root points to) when the snapshot is given.                             *)
Alloc(hasChroot, dir, hasSnap, o) ==
  LET chrootAt == Len(strs) + 1
      rootAt == Len(strs) + (IF hasChroot THEN 2 ELSE 1)
  IN /\ strs' = strs \o (IF hasChroot THEN <<dir>> ELSE << >>)
                     \o (IF hasSnap /\ o.HasRoot THEN <<o.Root>> ELSE << >>)
     /\ snaps' = IF hasSnap
                 THEN Append(snaps, [Path |-> o.Path,
                                     Root |-> IF o.HasRoot THEN rootAt ELSE Nil,
                                     Exclusive |-> o.Exclusive])
                 ELSE snaps
     /\ opts' = Append(opts, [Chroot |-> IF hasChroot THEN chrootAt ELSE Nil,
                              Snapshot |-> IF hasSnap THEN Len(snaps) + 1 ELSE Nil])
     /\ list' = Append(list, Len(opts) + 1)

(* list = append(list, WithChroot(dir)): Chroot is &dir, Snapshot is nil.  *)
WithChroot(dir) ==
  /\ ~Crashed
  /\ Building
  /\ Alloc(TRUE, dir, FALSE, ZeroSnapshotOptions)
  /\ last' = Event("WithChroot", 0, "", FALSE)
  /\ UNCHANGED <<env, args, res, pc>>

(* list = append(list, WithSnapshot(o)): Snapshot is &o, the address of    *)
(* the callee's copy of the caller's value; Chroot is nil.                 *)
WithSnapshot(o) ==
  /\ ~Crashed
  /\ Building
  /\ Alloc(FALSE, "", TRUE, o)
  /\ last' = Event("WithSnapshot", 0, "", FALSE)
  /\ UNCHANGED <<env, args, res, pc>>

(* list = append(list, &Option{...}): an Option written by hand, with both *)
(* fields or with neither.                                                 *)
NewOption(both, dir, o) ==
  /\ ~Crashed
  /\ Building
  /\ Alloc(both, dir, both, o)
  /\ last' = Event("NewOption", 0, "", FALSE)
  /\ UNCHANGED <<env, args, res, pc>>

(* list = append(list, nil): the signature takes any *Option.              *)
AppendNil ==
  /\ ~Crashed
  /\ Building
  /\ list' = Append(list, Nil)
  /\ last' = Event("AppendNil", 0, "", FALSE)
  /\ UNCHANGED <<env, strs, snaps, opts, args, res, pc>>

(* -------------------------------- Merge -------------------------------- *)

RECURSIVE MergeLoop_clobber(_, _)
MergeLoop_clobber(a, n) ==
  IF n = 0 THEN [Chroot |-> Nil, Snapshot |-> Nil, panic |-> FALSE]
  ELSE LET m == MergeLoop_clobber(a, n - 1)
           opt == a[n]
       IN IF m.panic THEN m
          ELSE IF opt = Nil THEN [m EXCEPT !.panic = TRUE]
          ELSE [Chroot |-> opts[opt].Chroot, Snapshot |-> opts[opt].Snapshot,
                panic |-> FALSE]

(* The loop of Merge over opts[1..n]: the fields of merged after n         *)
(* iterations, and whether an iteration dereferenced a nil *Option.        *)
RECURSIVE MergeLoop(_, _)
MergeLoop(a, n) ==
  IF n = 0 THEN [Chroot |-> Nil, Snapshot |-> Nil, panic |-> FALSE]
  ELSE LET m == MergeLoop(a, n - 1)
           opt == a[n]
       IN IF m.panic THEN m
          ELSE IF opt = Nil THEN [m EXCEPT !.panic = TRUE]
          ELSE [Chroot |-> IF opts[opt].Chroot # Nil THEN opts[opt].Chroot ELSE m.Chroot,
                Snapshot |-> IF opts[opt].Snapshot # Nil THEN opts[opt].Snapshot
                             ELSE m.Snapshot,
                panic |-> FALSE]

(* if merged.Chroot == nil / if merged.Snapshot == nil                     *)
ChrootMissing_always(m) == TRUE

ChrootMissing(m) == m.Chroot = Nil

SnapshotMissing_always(m) == TRUE

SnapshotMissing(m) == m.Snapshot = Nil

(* Merge(a...) called by p under the environment e; p is at done after it. *)
Merge(p, a, e, done) ==
  LET m == MergeLoop(a, Len(a))
      newChroot == ChrootMissing(m)
      newSnap == SnapshotMissing(m)
      chrootAt == Len(strs) + 1
      snapRootAt == Len(strs) + (IF newChroot THEN 2 ELSE 1)
  IN /\ args' = [args EXCEPT ![p] = a]
     /\ last' = Event("Merge", p, "", FALSE)
     /\ IF m.panic
        THEN /\ pc' = [pc EXCEPT ![p] = "panic"]
             /\ UNCHANGED <<strs, snaps, opts, res>>
        ELSE /\ strs' = strs
                         \o (IF newChroot THEN <<EnvOrDefaultChroot(e)>> ELSE << >>)
                         \o (IF newSnap THEN <<EnvOrDefaultSnapshotRoot(e)>> ELSE << >>)
             /\ snaps' = IF newSnap
                         THEN Append(snaps, [Path |-> EnvOrDefaultSnapshotPath(e),
                                             Root |-> snapRootAt,
                                             Exclusive |-> EnvOrDefaultSnapshotExclusive(e)])
                         ELSE snaps
             /\ opts' = Append(opts,
                          [Chroot |-> IF newChroot THEN chrootAt ELSE m.Chroot,
                           Snapshot |-> IF newSnap THEN Len(snaps) + 1 ELSE m.Snapshot])
             /\ res' = [res EXCEPT ![p] = Len(opts) + 1]
             /\ pc' = [pc EXCEPT ![p] = done]

(* r := Merge(list...)                                                     *)
CallMerge(p) ==
  /\ ~Crashed
  /\ pc[p] = "ready"
  /\ Merge(p, list, env, "merged")
  /\ UNCHANGED <<env, list>>

(* r2 := Merge(r) or Merge(r, r), r a result some goroutine holds.         *)
CallMergeAgain(p, q, twice) ==
  /\ ~Crashed
  /\ pc[p] = "merged"
  /\ res[q] # Nil
  /\ Merge(p, IF twice THEN <<res[q], res[q]>> ELSE <<res[q]>>, env, "remerged")
  /\ UNCHANGED <<env, list>>

(* The caller lets go of every Option it holds and starts over.            *)
Drop ==
  /\ ~Crashed
  /\ \E p \in Procs : pc[p] # "ready"
  /\ strs' = << >>
  /\ snaps' = << >>
  /\ opts' = << >>
  /\ list' = << >>
  /\ args' = [p \in Procs |-> << >>]
  /\ res' = [p \in Procs |-> Nil]
  /\ pc' = [p \in Procs |-> "ready"]
  /\ last' = Event("Drop", 0, "", FALSE)
  /\ UNCHANGED env

(* ------------------ writes by a caller to its result ------------------- *)

(* *r.Chroot = v                                                           *)
WriteChroot(p) ==
  /\ ~Crashed
  /\ res[p] # Nil
  /\ strs' = [strs EXCEPT ![opts[res[p]].Chroot] = WriteVal]
  /\ strs' # strs
  /\ last' = Event("WriteChroot", p, "", FALSE)
  /\ UNCHANGED <<env, snaps, opts, list, args, res, pc>>

(* r.Snapshot.Path = v                                                     *)
WriteSnapshotPath(p) ==
  /\ ~Crashed
  /\ res[p] # Nil
  /\ snaps' = [snaps EXCEPT ![opts[res[p]].Snapshot].Path = WriteVal]
  /\ snaps' # snaps
  /\ last' = Event("WriteSnapshotPath", p, "", FALSE)
  /\ UNCHANGED <<env, strs, opts, list, args, res, pc>>

(* r.Snapshot.Exclusive = true                                             *)
WriteSnapshotExclusive(p) ==
  /\ ~Crashed
  /\ res[p] # Nil
  /\ snaps' = [snaps EXCEPT ![opts[res[p]].Snapshot].Exclusive = TRUE]
  /\ snaps' # snaps
  /\ last' = Event("WriteSnapshotExclusive", p, "", FALSE)
  /\ UNCHANGED <<env, strs, opts, list, args, res, pc>>

(* *r.Snapshot.Root = v                                                    *)
WriteSnapshotRoot(p) ==
  /\ ~Crashed
  /\ res[p] # Nil
  /\ snaps[opts[res[p]].Snapshot].Root # Nil
  /\ strs' = [strs EXCEPT ![snaps[opts[res[p]].Snapshot].Root] = WriteVal]
  /\ strs' # strs
  /\ last' = Event("WriteSnapshotRoot", p, "", FALSE)
  /\ UNCHANGED <<env, snaps, opts, list, args, res, pc>>

(* --------------------------- specifications ---------------------------- *)

Main == 1

LookupStep ==
  \/ CallEnvOrDefaultChroot
  \/ CallEnvOrDefaultSnapshotPath
  \/ CallEnvOrDefaultSnapshotRoot
  \/ CallEnvOrDefaultSnapshotExclusive
  \/ CallEnvOrDefaultSnapshotPreserve

ConstructStep ==
  \/ \E d \in Dirs : WithChroot(d)
  \/ \E o \in SnapLits : WithSnapshot(o)
  \/ \E both \in BOOLEAN, d \in Dirs, o \in SnapLits : NewOption(both, d, o)
  \/ AppendNil

(* The single-threaded program: it sets and unsets the variables Merge     *)
(* reads, calls the lookups, builds a list, merges it, merges the result.  *)
Next ==
  \/ \E k \in MergeKeys : \E v \in MergeEnvVals(k) : Setenv(k, v)
  \/ \E k \in MergeKeys : Unsetenv(k)
  \/ LookupStep
  \/ ConstructStep
  \/ CallMerge(Main)
  \/ \E twice \in BOOLEAN : CallMergeAgain(Main, Main, twice)
  \/ Drop

Spec == Init /\ [][Next]_vars

(* The environment and its lookups alone, over all the values.             *)
NextEnv ==
  \/ \E k \in EnvKeys : \E v \in EnvVals(k) : Setenv(k, v)
  \/ \E k \in EnvKeys : Unsetenv(k)
  \/ LookupStep

SpecEnv == Init /\ [][NextEnv]_vars

(* Two goroutines over one argument list, the environment stable.  A call  *)
(* of Merge is one step: it reads only the pointer fields of its argument  *)
(* Options and writes only its own new Option, and the writes below go to  *)
(* string cells and SnapshotOptions fields, which Merge never reads.       *)
NextConc ==
  \/ ConstructStep
  \/ \E p \in Procs : CallMerge(p)
  \/ \E p, q \in Procs : \E twice \in BOOLEAN : CallMergeAgain(p, q, twice)
  \/ \E p \in Procs : WriteChroot(p)
  \/ \E p \in Procs : WriteSnapshotPath(p)
  \/ \E p \in Procs : WriteSnapshotExclusive(p)
  \/ \E p \in Procs : WriteSnapshotRoot(p)

SpecConc == Init /\ [][NextConc]_vars

(* ------------------------- reading an Option --------------------------- *)

(* What a reader of the Option at address o sees: which fields are set and *)
(* the values behind the pointers ("" / FALSE where there is none).        *)
OptView(o) ==
  LET c == opts[o].Chroot
      s == opts[o].Snapshot
      r == IF s = Nil THEN Nil ELSE snaps[s].Root
  IN [hasChroot |-> c # Nil,
      chroot |-> IF c = Nil THEN "" ELSE strs[c],
      hasSnap |-> s # Nil,
      path |-> IF s = Nil THEN "" ELSE snaps[s].Path,
      hasRoot |-> r # Nil,
      root |-> IF r = Nil THEN "" ELSE strs[r],
      exclusive |-> IF s = Nil THEN FALSE ELSE snaps[s].Exclusive]

SnapView(o) ==
  LET v == OptView(o)
  IN [path |-> v.path, hasRoot |-> v.hasRoot, root |-> v.root, exclusive |-> v.exclusive]

Returned(p) == pc[p] \in {"merged", "remerged"}

(* ------------------------------ the claims ----------------------------- *)

HasChroot(o) == o # Nil /\ opts[o].Chroot # Nil

HasSnapshot(o) == o # Nil /\ opts[o].Snapshot # Nil

(* i is the last place of the argument list a where Has holds.             *)
IsLast(a, i, Has(_)) ==
  /\ i \in 1 .. Len(a)
  /\ Has(a[i])
  /\ \A j \in (i + 1) .. Len(a) : ~Has(a[j])

None(a, Has(_)) == \A i \in 1 .. Len(a) : ~Has(a[i])

(* C1: whatever Merge returns has every field resolved: Chroot present,    *)
(* Snapshot present, and Snapshot.Root present.                            *)
C1_AllFieldsResolved ==
  \A p \in Procs :
    Returned(p) =>
      LET v == OptView(res[p]) IN v.hasChroot /\ v.hasSnap /\ v.hasRoot

(* C2: per field, the value Merge returns is the value of the last         *)
(* argument that has the field, whatever the other field holds anywhere.   *)
C2_LastWins ==
  \A p \in Procs :
    Returned(p) =>
      \A i \in 1 .. Len(args[p]) :
        /\ IsLast(args[p], i, HasChroot) =>
             /\ OptView(res[p]).hasChroot
             /\ OptView(res[p]).chroot = OptView(args[p][i]).chroot
        /\ IsLast(args[p], i, HasSnapshot) =>
             /\ OptView(res[p]).hasSnap
             /\ SnapView(res[p]) = SnapView(args[p][i])

C2_Witness ==
  /\ pc[Main] = "merged"
  /\ Len(args[Main]) = 2
  /\ HasChroot(args[Main][1]) /\ OptView(args[Main][1]).chroot = "/a"
  /\ HasChroot(args[Main][2]) /\ OptView(args[Main][2]).chroot = "/b"
  /\ ~HasSnapshot(args[Main][2]) /\ HasSnapshot(args[Main][1])
  /\ OptView(res[Main]).chroot = "/b"
  /\ OptView(res[Main]).path = "/snap"

(* C3: right after a Merge, a field no argument has is the environment's   *)
(* value for it in the environment of the call, or the default; a chroot   *)
(* an argument has wins over GHW_CHROOT.                                   *)
C3_DefaultsFromEnv ==
  (last.op = "Merge" /\ Returned(last.p)) =>
    LET a == args[last.p]
        v == OptView(res[last.p])
    IN /\ None(a, HasChroot) =>
            /\ v.hasChroot
            /\ v.chroot = IF "GHW_CHROOT" \in DOMAIN env THEN env["GHW_CHROOT"] ELSE "/"
       /\ None(a, HasSnapshot) =>
            /\ v.hasSnap /\ v.hasRoot
            /\ v.path = IF "GHW_SNAPSHOT_PATH" \in DOMAIN env
                        THEN env["GHW_SNAPSHOT_PATH"] ELSE ""
            /\ v.root = IF "GHW_SNAPSHOT_ROOT" \in DOMAIN env
                        THEN env["GHW_SNAPSHOT_ROOT"] ELSE ""
            /\ v.exclusive = ("GHW_SNAPSHOT_EXCLUSIVE" \in DOMAIN env)
       /\ \A i \in 1 .. Len(a) :
            IsLast(a, i, HasChroot) => v.chroot = OptView(a[i]).chroot
       /\ (a = << >> /\ DOMAIN env = {}) =>
            v = [hasChroot |-> TRUE, chroot |-> "/", hasSnap |-> TRUE, path |-> "",
                 hasRoot |-> TRUE, root |-> "", exclusive |-> FALSE]

C3_Witness ==
  /\ last.op = "Merge" /\ pc[Main] = "merged"
  /\ args[Main] = << >>
  /\ DOMAIN env = {"GHW_CHROOT", "GHW_SNAPSHOT_PATH"}
  /\ env["GHW_CHROOT"] = "/host"
  /\ OptView(res[Main]).chroot = "/host"
  /\ OptView(res[Main]).path = "/envsnap"
  /\ OptView(res[Main]).root = ""

(* C4: a string lookup returns its own variable's value when the variable  *)
(* is present, the empty value included, and the default ("/" for the      *)
(* chroot, "" for the snapshot path and root) exactly when it is absent.   *)
C4_StringLookups ==
  /\ last.op = "EnvOrDefaultChroot" =>
       /\ last.str = IF "GHW_CHROOT" \in DOMAIN env THEN env["GHW_CHROOT"] ELSE "/"
       /\ (last.str = "/") <=>
            ("GHW_CHROOT" \notin DOMAIN env \/ env["GHW_CHROOT"] = "/")
  /\ last.op = "EnvOrDefaultSnapshotPath" =>
       last.str = IF "GHW_SNAPSHOT_PATH" \in DOMAIN env
                  THEN env["GHW_SNAPSHOT_PATH"] ELSE ""
  /\ last.op = "EnvOrDefaultSnapshotRoot" =>
       last.str = IF "GHW_SNAPSHOT_ROOT" \in DOMAIN env
                  THEN env["GHW_SNAPSHOT_ROOT"] ELSE ""

C4_Witness ==
  /\ last.op = "EnvOrDefaultChroot"
  /\ "GHW_CHROOT" \in DOMAIN env /\ env["GHW_CHROOT"] = ""
  /\ last.str = ""
  /\ "GHW_SNAPSHOT_PATH" \in DOMAIN env /\ env["GHW_SNAPSHOT_PATH"] = "/envsnap"

C6_Idempotent ==
  \A p \in Procs :
    pc[p] = "remerged" =>
      /\ Len(args[p]) \in {1, 2}
      /\ \A i \in 1 .. Len(args[p]) : OptView(res[p]) = OptView(args[p][i])

C6_Witness ==
  /\ last.op = "Merge" /\ pc[Main] = "remerged"
  /\ Len(args[Main]) = 2
  /\ res[Main] # args[Main][1]
  /\ list = << >>
  /\ OptView(args[Main][1]).chroot = "/" /\ OptView(args[Main][1]).root = ""
  /\ DOMAIN env = {"GHW_CHROOT", "GHW_SNAPSHOT_ROOT"}
  /\ env["GHW_CHROOT"] = "/host"
  /\ OptView(res[Main]).chroot = "/"

(* C7: no call reaches a crash.                                            *)
C7_Total == \A p \in Procs : pc[p] # "panic"

(* The steps that are calls of the package, and what the call last made    *)
(* must have returned, read off its arguments and the environment now.     *)
CallOps ==
  {"Merge", "EnvOrDefaultChroot", "EnvOrDefaultSnapshotPath", "EnvOrDefaultSnapshotRoot",
   "EnvOrDefaultSnapshotExclusive", "EnvOrDefaultSnapshotPreserve"}

Present(key, default) == IF key \in DOMAIN env THEN env[key] ELSE default

ResultOfNow ==
  CASE last.op = "EnvOrDefaultChroot" -> last.str = Present("GHW_CHROOT", "/")
    [] last.op = "EnvOrDefaultSnapshotPath" -> last.str = Present("GHW_SNAPSHOT_PATH", "")
    [] last.op = "EnvOrDefaultSnapshotRoot" -> last.str = Present("GHW_SNAPSHOT_ROOT", "")
    [] last.op = "EnvOrDefaultSnapshotExclusive" ->
         last.bool = ("GHW_SNAPSHOT_EXCLUSIVE" \in DOMAIN env)
    [] last.op = "EnvOrDefaultSnapshotPreserve" ->
         last.bool = ("GHW_SNAPSHOT_PRESERVE" \in DOMAIN env)
    [] last.op = "Merge" /\ Returned(last.p) ->
         LET a == args[last.p]
             v == OptView(res[last.p])
         IN /\ IF None(a, HasChroot)
               THEN v.chroot = Present("GHW_CHROOT", "/")
               ELSE \E i \in 1 .. Len(a) :
                      IsLast(a, i, HasChroot) /\ v.chroot = OptView(a[i]).chroot
            /\ IF None(a, HasSnapshot)
               THEN SnapView(res[last.p]) =
                      [path |-> Present("GHW_SNAPSHOT_PATH", ""), hasRoot |-> TRUE,
                       root |-> Present("GHW_SNAPSHOT_ROOT", ""),
                       exclusive |-> "GHW_SNAPSHOT_EXCLUSIVE" \in DOMAIN env]
               ELSE \E i \in 1 .. Len(a) :
                      IsLast(a, i, HasSnapshot) /\ SnapView(res[last.p]) = SnapView(a[i])
    [] OTHER -> TRUE

(* C8: a call leaves the environment as it found it, and what it returns   *)
(* is fixed by its arguments and the environment at the call: the lookups  *)
(* return the present value or the default, Merge the last given value of  *)
(* each field or else the present environment's.                           *)
C8_ReadAtCallTime ==
  [][(last'.op \in CallOps) => (env' = env /\ ResultOfNow')]_vars

C8_Witness ==
  /\ last.op = "EnvOrDefaultChroot" /\ last.str = "/host"
  /\ pc[Main] = "merged" /\ args[Main] = << >>
  /\ OptView(res[Main]).chroot = "/"
  /\ OptView(res[Main]).path = "/envsnap"
  /\ "GHW_SNAPSHOT_PATH" \notin DOMAIN env

WriteOps ==
  {"WriteChroot", "WriteSnapshotPath", "WriteSnapshotExclusive", "WriteSnapshotRoot"}

(* C9: a write by one caller to its result changes nothing another caller  *)
(* reads through its own result, and nothing read through the arguments.   *)
C9_ResultsIndependent ==
  [][(last'.op \in WriteOps) =>
       /\ \A q \in Procs \ {last'.p} :
            Returned(q) => OptView(res[q])' = OptView(res[q])
       /\ \A i \in 1 .. Len(list) :
            list[i] # Nil => OptView(list[i])' = OptView(list[i])]_vars

(* C10: when an argument has Snapshot, the returned snapshot is the last   *)
(* such argument's in Path, Root (absent included) and Exclusive, taking   *)
(* nothing from an earlier argument and nothing from the environment: on   *)
(* a list the caller wrote, it is one of the caller's own values.          *)
C10_SnapshotAsUnit ==
  \A p \in Procs :
    (Returned(p) /\ ~None(args[p], HasSnapshot)) =>
      /\ \E i \in 1 .. Len(args[p]) :
           /\ IsLast(args[p], i, HasSnapshot)
           /\ opts[res[p]].Snapshot = opts[args[p][i]].Snapshot
           /\ SnapView(res[p]) = SnapView(args[p][i])
      /\ pc[p] = "merged" =>
           \E o \in SnapLits :
             SnapView(res[p]) = [path |-> o.Path, hasRoot |-> o.HasRoot,
                                 root |-> o.Root, exclusive |-> o.Exclusive]

C10_Witness ==
  /\ last.op = "Merge" /\ pc[Main] = "merged"
  /\ Len(args[Main]) = 2
  /\ HasSnapshot(args[Main][1]) /\ HasSnapshot(args[Main][2])
  /\ SnapView(args[Main][1]).hasRoot /\ SnapView(args[Main][1]).exclusive
  /\ SnapView(res[Main]) =
       [path |-> "/snap", hasRoot |-> FALSE, root |-> "", exclusive |-> FALSE]
  /\ {"GHW_SNAPSHOT_PATH", "GHW_SNAPSHOT_ROOT", "GHW_SNAPSHOT_EXCLUSIVE"} \subseteq DOMAIN env

====
